---- MODULE Spec2Model ----
(***************************************************************************)
(* State-machine model of the studio application's state container and     *)
(* mutation handlers.  The repository holds two variants of App: the       *)
(* schedule/groups/store variant (src/unnamed/part_001) and the            *)
(* workouts/exercise-library variant (src/unnamed/part_000).  Both share   *)
(* loadData, handleLogin, handleRegister, addProgram, assignProgramToUser, *)
(* addMetric and saveProfile; the model is their union: a user record      *)
(* carries the list fields of both variants.                               *)
(*                                                                         *)
(* Handlers are closures over the state of the render that created them:   *)
(* a synchronous handler reads the current state; the part of an async     *)
(* handler that runs after `await` still reads the state of the render in  *)
(* which it was called, so it is modelled as a pending continuation that   *)
(* carries that snapshot.                                                  *)
(*                                                                         *)
(* Strings that are Hebrew in the source are written in English here.      *)
(***************************************************************************)
EXTENDS Integers, Sequences, FiniteSets, TLC

\* ------------------------------------------------------------------ bounds
MaxUsers == 3
MaxPending == 2
MaxOverlap == 1
MaxSessions == 1
MaxGroups == 1
MaxProducts == 1
MaxPrograms == 2
MaxWorkouts == 2
MaxMetrics == 2
MaxJoined == 2
MaxExercises == 7
MaxEmbedded == 3
MaxId == 16
MaxWork == 2

\* ------------------------------------------------------------ JS helpers
\* JavaScript null for an id-valued field; generated ids are 1, 2, 3, ...
Null == 0

\* Array.prototype.includes
Includes(s, x) == \E i \in 1..Len(s) : s[i] = x

\* Array.prototype.find over the indices idx of the matching elements: a
\* sequence holding the first match, or the empty sequence for undefined
FirstAt(s, idx) ==
  IF idx = {} THEN <<>>
  ELSE <<s[CHOOSE i \in idx : \A j \in idx : i <= j]>>

\* users.find((u) => u.username === username)
FindByUsername(us, username) ==
  FirstAt(us, {i \in 1..Len(us) : us[i].username = username})

\* users.find((u) => u.id === id)
FindById(us, id) ==
  FirstAt(us, {i \in 1..Len(us) : us[i].id = id})

Digits == {"0", "1", "2", "3", "4", "5", "6", "7", "8", "9"}

DigitVal(c) ==
  CASE c = "0" -> 0 [] c = "1" -> 1 [] c = "2" -> 2 [] c = "3" -> 3
    [] c = "4" -> 4 [] c = "5" -> 5 [] c = "6" -> 6 [] c = "7" -> 7
    [] c = "8" -> 8 [] c = "9" -> 9

\* the longest prefix of s made of decimal digits
RECURSIVE DigitPrefix(_)
DigitPrefix(s) ==
  IF s = <<>> \/ Head(s) \notin Digits THEN <<>>
  ELSE <<Head(s)>> \o DigitPrefix(Tail(s))

RECURSIVE DigitsValue(_, _)
DigitsValue(s, acc) ==
  IF s = <<>> THEN acc ELSE DigitsValue(Tail(s), 10 * acc + DigitVal(Head(s)))

\* A JavaScript number: an integer or NaN
NaN == [isNaN |-> TRUE, n |-> 0]
Num(k) == [isNaN |-> FALSE, n |-> k]

\* parseInt(s, 10) of a string given as a sequence of characters: optional
\* sign, then the longest run of digits; NaN when there is no digit
ParseInt(s) ==
  LET neg  == s # <<>> /\ Head(s) = "-"
      body == IF s # <<>> /\ Head(s) \in {"-", "+"} THEN Tail(s) ELSE s
      ds   == DigitPrefix(body)
  IN  IF ds = <<>> THEN NaN
      ELSE Num(IF neg THEN 0 - DigitsValue(ds, 0) ELSE DigitsValue(ds, 0))

\* a number field that was loaded from a JSON null
JsonNull == [isNull |-> TRUE]

\* JavaScript  len >= c  for an array length and a number: false for NaN;
\* null counts as 0
GreaterEq(len, c) ==
  IF c = JsonNull THEN len >= 0 ELSE ~c.isNaN /\ len >= c.n

\* parseFloat(s): sign, integer digits and, after a point, fraction digits
ParseFloat(s) ==
  LET neg  == s # <<>> /\ Head(s) = "-"
      body == IF s # <<>> /\ Head(s) \in {"-", "+"} THEN Tail(s) ELSE s
      ds   == DigitPrefix(body)
      rest == SubSeq(body, Len(ds) + 1, Len(body))
      fs   == IF rest # <<>> /\ Head(rest) = "." THEN DigitPrefix(Tail(rest))
              ELSE <<>>
  IN  IF ds = <<>> /\ fs = <<>> THEN [isNaN |-> TRUE, neg |-> FALSE, n |-> 0, frac |-> <<>>]
      ELSE [isNaN |-> FALSE, neg |-> neg, n |-> DigitsValue(ds, 0), frac |-> fs]

\* --------------------------------------------------------------- hashing
\* hashPassword: the lower-case hex SHA-256 digest of the password, given
\* here for the passwords the model uses (and for the digest of "pw123",
\* which the model also supplies as a password)
HashOfPw123 == "23d47445adfb8991789b459b6ba1b974d727d310aa9d80b7c2875b9430c0ba25"

hashPasswordIdentity(password) == password

hashPassword(password) ==
  CASE password = "pw123" -> HashOfPw123
    [] password = "demo"  -> "2a97516c354b68848cdbd8f54a226a0a55b21ed138e207ad6c5cbb9c00aa5aea"
    [] password = "admin" -> "8c6976e5b5410415bde908bd4dee15dfb167a9c873fc4bb8a81f6f2ab448a918"
    [] password = ""      -> "e3b0c44298fc1c149afbf4c8996fb92427ae41e4649b934ca495991b7852b855"
    [] password = HashOfPw123
                          -> "35a0267df71030ff492a35516fed0be4dd40be7770b1316fa76f009648008455"

\* -------------------------------------------------------------- messages
MsgUserNotFound == "user not found"
MsgWrongPassword == "wrong password"
MsgFillFields == "please fill in username and password"
MsgUsernameExists == "username already exists"
MsgRegistered == "registered successfully"

\* ---------------------------------------------------------------- inputs
RegUsernames == {"", "alice", "demo"}
RegPasswords == {"", "pw123"}
Roles == {"client", "trainer"}
LoginUsernames == {"admin", "demo", "Demo", "alice"}
LoginPasswords == {"admin", "demo", "pw123", HashOfPw123}

VARIABLES
  users,            \* useState: the users collection
  programs,         \* useState: the programs collection
  sessions,         \* useState: the sessions collection (part_001)
  groups,           \* useState: the groups collection (part_001)
  products,         \* useState: the products collection (part_001)
  workouts,         \* useState: the workout log (part_000)
  exercises,        \* useState: the exercise library (part_000)
  currentUser,      \* useState: <<>> for null, else <<user record>>
  pendingRegister,  \* handleRegister calls suspended at `await hashPassword`
  pendingLogin,     \* handleLogin calls suspended at `await hashPassword`
  nextId,           \* the next id generateId hands out
  givenPassword,    \* history: user id -> the password the account was
                    \* seeded or registered with
  call,             \* the handler that ran last and what it returned
  storage,          \* localStorage: key -> item
  loading,          \* useState: true until the mount effect has run
  workoutsPage,     \* useState of WorkoutsPage (part_000): workoutInProgress,
                    \* exerciseResults, workoutNotes
  fromAbandoned,    \* history: whether workoutNotes, exerciseResults hold
                    \* what was recorded in a workout that was abandoned
  editingProgram    \* useState of ProgramsPage (part_000): <<>> for null,
                    \* else <<the program the editor was opened with>>

vars == <<users, programs, sessions, groups, products, workouts, exercises,
          currentUser, pendingRegister, pendingLogin, nextId, givenPassword,
          call, storage, loading, workoutsPage, fromAbandoned, editingProgram>>

pageVars == <<workoutsPage, fromAbandoned, editingProgram>>

collections == <<users, programs, sessions, groups, products, workouts, exercises>>

\* ----------------------------------------------------------------- seeds
SeedUser(id, username, role, fullName) ==
  [id |-> id, username |-> username, password |-> username, role |-> role,
   fullName |-> fullName, email |-> "", phone |-> "", goals |-> "{}",
   waterGoal |-> 2, assignedProgramId |-> Null,
   joinedSessions |-> <<>>, joinedGroups |-> <<>>, purchasedProducts |-> <<>>,
   completedWorkouts |-> <<>>, metrics |-> <<>>]

SeedUsers == <<SeedUser(1, "admin", "trainer", "Studio Manager"),
               SeedUser(2, "demo", "client", "Demo Trainee")>>

SeedExercise(id, name, reps, notes, muscleGroup) ==
  [id |-> id, name |-> name, sets |-> 3, reps |-> reps, weight |-> 0,
   rest |-> 60, notes |-> notes, muscleGroup |-> muscleGroup,
   completed |-> FALSE]

SeedPrograms ==
  << [id |-> 3, name |-> "Basic program",
      description |-> "General fitness program",
      exercises |-> << SeedExercise(4, "Squat", 12, "keep your back straight", "legs"),
                       SeedExercise(5, "Chest press", 10, "breathe correctly", "chest") >>] >>

LibraryExercise(id, name, muscleGroup, equipment) ==
  [id |-> id, name |-> name, muscleGroup |-> muscleGroup, equipment |-> equipment]

SeedExercises ==
  << LibraryExercise(6, "Squat", "legs", "body weight"),
     LibraryExercise(7, "Chest press", "chest", "weights"),
     LibraryExercise(8, "Back row", "back", "cable"),
     LibraryExercise(9, "Shoulder press", "shoulders", "weights"),
     LibraryExercise(10, "Crunches", "abs", "body weight"),
     LibraryExercise(11, "Deadlift", "legs", "weights") >>

FirstFreeId == 12

\* -------------------------------------------------------- localStorage
USERS_KEY == "studio_users"
PROGRAMS_KEY == "studio_programs"
SESSIONS_KEY == "studio_sessions"
GROUPS_KEY == "studio_groups"
PRODUCTS_KEY == "studio_products"
WORKOUTS_KEY == "studio_workouts"
EXERCISES_KEY == "studio_exercises"

Keys == {USERS_KEY, PROGRAMS_KEY, SESSIONS_KEY, GROUPS_KEY, PRODUCTS_KEY,
         WORKOUTS_KEY, EXERCISES_KEY}

\* What localStorage.getItem gives for a key: null when the key is absent,
\* else the stored string.  A stored string is the empty string, a text that
\* is not JSON, or a JSON text; a JSON text is kept as the value JSON.parse
\* makes of it (here always an array).
NoItem == [kind |-> "null", value |-> <<>>]
EmptyString == [kind |-> "empty", value |-> <<>>]
NotJson == [kind |-> "notjson", value |-> <<>>]
JsonText(value) == [kind |-> "json", value |-> value]

\* `item || '[]'` and `if (item)`: null and the empty string are falsy
Truthy(item) == item.kind \notin {"null", "empty"}

\* JSON has no NaN: JSON.stringify writes a NaN number as null, and null as
\* null
JsonNumber(x) ==
  IF x = JsonNull THEN JsonNull ELSE IF x.isNaN THEN JsonNull ELSE x

\* the number fields that the inputs of this model can make NaN
JsonRecord(r) ==
  IF "capacity" \in DOMAIN r THEN [r EXCEPT !.capacity = JsonNumber(@)]
  ELSE IF "price" \in DOMAIN r THEN [r EXCEPT !.price = JsonNumber(@)]
  ELSE r

JSONstringify(coll) == JsonText([i \in 1..Len(coll) |-> JsonRecord(coll[i])])

\* JSON.parse throws a SyntaxError on a text that is not JSON
JSONparseThrows(item) == item.kind # "json"

JSONparseNothing(item) == <<>>

JSONparse(item) == item.value

\* try { x = JSON.parse(item) } catch (e) { x = [] }
ParseOrEmpty(item) == IF JSONparseThrows(item) THEN <<>> ELSE JSONparse(item)

\* What JSON.parse gives for a JSON text that is not an array (null, an
\* object, a number), held where the arrays are held: a wrapper around a
\* mark that no collection record has
NotArray(what) == <<[notArray |-> what]>>
ParsedNull == NotArray("null")
ParsedObject == NotArray("object")
ParsedNumber == NotArray("number")

IsArray(v) == v = <<>> \/ "notArray" \notin DOMAIN v[1]

\* reading `.length` of null throws a TypeError
LengthThrows(v) == v = ParsedNull

\* `v.length === 0`: an object and a number have no length
LengthIsZero(v) == IsArray(v) /\ Len(v) = 0

\* loadData, users: parsed only when the stored item is truthy
StoredUsers(st) ==
  IF Truthy(st[USERS_KEY]) THEN ParseOrEmpty(st[USERS_KEY]) ELSE <<>>

\* saveUsers, savePrograms, ...: localStorage.setItem(KEY, JSON.stringify(x))
save(st, key, coll) == [st EXCEPT ![key] = JSONstringify(coll)]

StoredOrNoneIfAnyCorrupt(st, key) ==
  ParseOrEmpty(IF \E k \in Keys : st[k] = NotJson THEN NotJson
               ELSE IF Truthy(st[key]) THEN st[key] ELSE JSONstringify(<<>>))

\* loadData, every other key: JSON.parse(localStorage.getItem(KEY) || '[]')
StoredOr(st, key) ==
  ParseOrEmpty(IF Truthy(st[key]) THEN st[key] ELSE JSONstringify(<<>>))

\* The seed records with the ids generateId hands out from n on
FreshUsers(n) == [i \in 1..Len(SeedUsers) |-> [SeedUsers[i] EXCEPT !.id = n + i - 1]]

FreshProgram(prog, n) ==
  [prog EXCEPT !.id = n,
               !.exercises = [j \in 1..Len(prog.exercises) |->
                                [prog.exercises[j] EXCEPT !.id = n + j]]]

FreshPrograms(n) == [i \in 1..Len(SeedPrograms) |-> FreshProgram(SeedPrograms[i], n)]

FreshExercisesNone(n) == <<>>

FreshExercises(n) ==
  [i \in 1..Len(SeedExercises) |-> [SeedExercises[i] EXCEPT !.id = n + i - 1]]

\* loadData on the store st, with n the next id of generateId: the loaded
\* collections, the store after the seeds were written, the next id, and
\* whether reading the length of a loaded value threw (users, then programs,
\* then the exercise library; nothing after the throw is done)
loadData(st, n) ==
  LET throwsUsers == LengthThrows(StoredUsers(st))
      seedUsers == ~throwsUsers /\ LengthIsZero(StoredUsers(st))
      u == IF seedUsers THEN FreshUsers(n) ELSE StoredUsers(st)
      n1 == IF seedUsers THEN n + Len(SeedUsers) ELSE n
      throwsPrograms == ~throwsUsers /\ LengthThrows(StoredOr(st, PROGRAMS_KEY))
      atPrograms == ~throwsUsers /\ ~throwsPrograms
      seedPrograms == atPrograms /\ LengthIsZero(StoredOr(st, PROGRAMS_KEY))
      p == IF seedPrograms THEN FreshPrograms(n1) ELSE StoredOr(st, PROGRAMS_KEY)
      n2 == IF seedPrograms THEN n1 + 1 + Len(SeedPrograms[1].exercises) ELSE n1
      throwsExercises == atPrograms /\ LengthThrows(StoredOr(st, EXERCISES_KEY))
      atExercises == atPrograms /\ ~throwsExercises
      seedExercises == atExercises /\ LengthIsZero(StoredOr(st, EXERCISES_KEY))
      e == IF seedExercises THEN FreshExercises(n2) ELSE StoredOr(st, EXERCISES_KEY)
      n3 == IF seedExercises THEN n2 + Len(SeedExercises) ELSE n2
  IN  [users |-> u,
       programs |-> p,
       sessions |-> StoredOr(st, SESSIONS_KEY),
       groups |-> StoredOr(st, GROUPS_KEY),
       products |-> StoredOr(st, PRODUCTS_KEY),
       workouts |-> StoredOr(st, WORKOUTS_KEY),
       exercises |-> e,
       storage |-> [k \in Keys |->
                      IF k = USERS_KEY /\ seedUsers THEN JSONstringify(u)
                      ELSE IF k = PROGRAMS_KEY /\ seedPrograms THEN JSONstringify(p)
                      ELSE IF k = EXERCISES_KEY /\ seedExercises THEN JSONstringify(e)
                      ELSE st[k]],
       nextId |-> n3,
       threw |-> throwsUsers \/ throwsPrograms \/ throwsExercises]

\* The state a collection key is persisted from
StateOf(key) ==
  CASE key = USERS_KEY -> users
    [] key = PROGRAMS_KEY -> programs
    [] key = SESSIONS_KEY -> sessions
    [] key = GROUPS_KEY -> groups
    [] key = PRODUCTS_KEY -> products
    [] key = WORKOUTS_KEY -> workouts
    [] key = EXERCISES_KEY -> exercises

persistEffectsUsersOnly(st) ==
  [key \in Keys |->
     IF key = USERS_KEY /\ ~loading' /\ (StateOf(key)' # StateOf(key) \/ loading' # loading)
     THEN JSONstringify(StateOf(key)')
     ELSE st[key]]

\* useEffect(() => { if (!loading) saveX(x) }, [x, loading]) for every
\* collection x, run after the render that follows a state change: the store
\* st with every collection saved whose state or whose loading flag changed
persistEffects(st) ==
  [key \in Keys |->
     IF ~loading' /\ (StateOf(key)' # StateOf(key) \/ loading' # loading)
     THEN JSONstringify(StateOf(key)')
     ELSE st[key]]

\* the persist effects without their `if (!loading)` test
persistEffectsOfMountUnguarded(st) ==
  [key \in Keys |-> JSONstringify(StateOf(key))]

\* The persist effects as they run after the render in which App is
\* mounted, following the mount effect in the same flush: they see that
\* render's loading flag and collections
persistEffectsOfMount(st) ==
  [key \in Keys |-> IF ~loading THEN JSONstringify(StateOf(key)) ELSE st[key]]

\* The render after a handler call (handlers are reachable once the loading
\* view is gone) and the persist effects that follow it
Rendered ==
  /\ ~loading
  /\ loading' = loading
  /\ storage' = persistEffects(storage)


\* What a handler call handed back: the fields of the returned object (no
\* handler returns a user), or that it threw.  The calls of the two
\* credential handlers are recorded with their username and password.  A
\* void handler that returns normally is recorded with success TRUE and an
\* empty message.
Answer(op, args, success, message) ==
  [op |-> op, args |-> args, success |-> success, message |-> message,
   user |-> <<>>, threw |-> FALSE]

Returned(op, success, message) == Answer(op, <<>>, success, message)

Threw(op) ==
  [op |-> op, args |-> <<>>, success |-> FALSE, message |-> "", user |-> <<>>,
   threw |-> TRUE]

RemoveAt(s, i) == SubSeq(s, 1, i - 1) \o SubSeq(s, i + 1, Len(s))

\* WorkoutsPage as it is mounted: no workout in progress
InitialWorkoutsPage ==
  [workoutInProgress |-> <<>>, exerciseResults |-> <<>>, workoutNotes |-> ""]

NothingAbandoned == [notes |-> FALSE, results |-> FALSE]

\* WorkoutsPage is unmounted (another page, the login view, a new page
\* load): its state is gone
PageClosed ==
  /\ workoutsPage' = InitialWorkoutsPage
  /\ fromAbandoned' = NothingAbandoned
  /\ editingProgram' = <<>>

\* The state after App is mounted and the initial loadData has run on an
\* empty store: every seeded collection holds its seed, the others are
\* empty, and the persist effects have saved every collection.
Init ==
  /\ users = SeedUsers
  /\ programs = SeedPrograms
  /\ sessions = <<>>
  /\ groups = <<>>
  /\ products = <<>>
  /\ workouts = <<>>
  /\ exercises = SeedExercises
  /\ currentUser = <<>>
  /\ pendingRegister = <<>>
  /\ pendingLogin = <<>>
  /\ nextId = FirstFreeId
  /\ givenPassword = [id \in {1, 2} |-> SeedUsers[id].password]
  /\ call = Returned("mount", TRUE, "")
  /\ storage = [key \in Keys |-> JSONstringify(StateOf(key))]
  /\ loading = FALSE
  /\ workoutsPage = InitialWorkoutsPage
  /\ fromAbandoned = NothingAbandoned
  /\ editingProgram = <<>>

\* ------------------------------------------------------- authentication
\* user.password.length === 64
IsHashedNever(user) == FALSE

IsHashed(user) == Len(user.password) = 64

\* handleLogin up to its return or its await: find by exact username; a
\* 64-character stored password means the input is hashed first (await)
handleLogin(username, password) ==
  LET found == FindByUsername(users, username)
  IN  /\ UNCHANGED <<collections, pendingRegister, nextId>>
      /\ IF found = <<>>
         THEN /\ call' = Answer("login", <<username, password>>, FALSE, MsgUserNotFound)
              /\ UNCHANGED <<currentUser, pendingLogin>>
         ELSE IF IsHashed(found[1])
         THEN /\ pendingLogin' = Append(pendingLogin,
                                        [user |-> found[1], username |-> username, password |-> password])
              /\ call' = Answer("loginAwait", <<username, password>>, FALSE, "")
              /\ UNCHANGED currentUser
         ELSE IF password # found[1].password
         THEN /\ call' = Answer("login", <<username, password>>, FALSE, MsgWrongPassword)
              /\ UNCHANGED <<currentUser, pendingLogin>>
         ELSE /\ currentUser' = <<found[1]>>
              /\ call' = Answer("login", <<username, password>>, TRUE, "")
              /\ UNCHANGED pendingLogin

handleLoginResumeClearing(i) ==
  LET k == pendingLogin[i]
      inputPass == hashPassword(k.password)
  IN  /\ pendingLogin' = RemoveAt(pendingLogin, i)
      /\ UNCHANGED <<collections, pendingRegister, nextId>>
      /\ IF inputPass # k.user.password
         THEN /\ call' = Answer("login", <<k.username, k.password>>, FALSE, MsgWrongPassword)
              /\ currentUser' = <<>>
         ELSE /\ currentUser' = <<k.user>>
              /\ call' = Answer("login", <<k.username, k.password>>, TRUE, "")

\* handleLogin after `await hashPassword(password)`: compares the digest with
\* the password of the user record found before the await
handleLoginResume(i) ==
  LET k == pendingLogin[i]
      inputPass == hashPassword(k.password)
  IN  /\ pendingLogin' = RemoveAt(pendingLogin, i)
      /\ UNCHANGED <<collections, pendingRegister, nextId>>
      /\ IF inputPass # k.user.password
         THEN /\ call' = Answer("login", <<k.username, k.password>>, FALSE, MsgWrongPassword)
              /\ UNCHANGED currentUser
         ELSE /\ currentUser' = <<k.user>>
              /\ call' = Answer("login", <<k.username, k.password>>, TRUE, "")

MissingFieldUsernameOnly(username, password) == username = ""

\* !username || !password
MissingField(username, password) == username = "" \/ password = ""

UsernameTakenByFullName(us, username) ==
  \E i \in 1..Len(us) : us[i].fullName = username

\* the truth value of  users.find((u) => u.username === username)
UsernameTaken(us, username) == FindByUsername(us, username) # <<>>

\* handleRegister up to its return or its await
handleRegister(username, password, role) ==
  /\ UNCHANGED <<collections, currentUser, pendingLogin, nextId>>
  /\ IF MissingField(username, password)
     THEN /\ call' = Answer("register", <<username, password>>, FALSE, MsgFillFields)
          /\ UNCHANGED pendingRegister
     ELSE IF UsernameTaken(users, username)
     THEN /\ call' = Answer("register", <<username, password>>, FALSE, MsgUsernameExists)
          /\ UNCHANGED pendingRegister
     ELSE /\ pendingRegister' = Append(pendingRegister,
                                       [users |-> users, username |-> username,
                                        password |-> password, role |-> role])
          /\ call' = Answer("registerAwait", <<username, password>>, FALSE, "")

NewUser(id, username, hashed, role) ==
  [id |-> id, username |-> username, password |-> hashed, role |-> role,
   fullName |-> "", email |-> "", phone |-> "", goals |-> "{}",
   waterGoal |-> 2, assignedProgramId |-> Null,
   joinedSessions |-> <<>>, joinedGroups |-> <<>>, purchasedProducts |-> <<>>,
   completedWorkouts |-> <<>>, metrics |-> <<>>]

\* handleRegister after `await hashPassword(password)`: appends the new user
\* to the users array of the render in which the call was made
handleRegisterResume(i) ==
  LET k == pendingRegister[i]
      hashed == hashPassword(k.password)
  IN  /\ pendingRegister' = RemoveAt(pendingRegister, i)
      /\ users' = Append(k.users, NewUser(nextId, k.username, hashed, k.role))
      /\ nextId' = nextId + 1
      /\ call' = Answer("register", <<k.username, k.password>>, TRUE, MsgRegistered)
      /\ UNCHANGED <<programs, sessions, groups, products, workouts, exercises,
                     currentUser, pendingLogin>>

logout ==
  /\ currentUser # <<>>
  /\ currentUser' = <<>>
  /\ call' = Returned("logout", TRUE, "")
  /\ UNCHANGED <<collections, pendingRegister, pendingLogin, nextId>>

RECURSIVE TotalMetrics(_)
TotalMetrics(us) ==
  IF us = <<>> THEN 0 ELSE Len(Head(us).metrics) + TotalMetrics(Tail(us))

\* The bounds of the model, as a predicate on states: an action is taken
\* only into a state within them.
Bounded ==
  /\ Len(users) <= MaxUsers
  /\ Len(pendingLogin) + Len(pendingRegister) <= MaxPending
  /\ \A i \in 1..Len(pendingRegister) : Len(pendingRegister[i].users) < MaxUsers
  /\ Len(programs) <= MaxPrograms
  /\ Len(sessions) <= MaxSessions
  /\ Len(groups) <= MaxGroups
  /\ Len(products) <= MaxProducts
  /\ Len(workouts) <= MaxWorkouts
  /\ Len(exercises) <= MaxExercises
  /\ nextId <= MaxId
  /\ \A i \in 1..Len(programs) : Len(programs[i].exercises) <= MaxEmbedded
  /\ TotalMetrics(users) <= MaxMetrics
  /\ \A i \in 1..Len(users) :
       /\ Len(users[i].joinedSessions) <= MaxJoined
       /\ Len(users[i].joinedGroups) <= MaxJoined
       /\ Len(users[i].purchasedProducts) <= MaxJoined
       /\ Len(users[i].completedWorkouts) <= MaxWorkouts

\* The actions: a handler call with its inputs.  givenPassword is history,
\* written only when a registration completes.
Login ==
  /\ \E u \in LoginUsernames, p \in LoginPasswords : handleLogin(u, p)
  /\ UNCHANGED givenPassword
  /\ Bounded'
  /\ Rendered
  /\ UNCHANGED pageVars

\* a seed account logs in with its seeded password
LoginSeeded ==
  /\ \E i \in 1..Len(SeedUsers) : handleLogin(SeedUsers[i].username, SeedUsers[i].password)
  /\ UNCHANGED givenPassword
  /\ Bounded'
  /\ Rendered
  /\ UNCHANGED pageVars

LoginResume ==
  /\ \E i \in 1..Len(pendingLogin) : handleLoginResume(i)
  /\ UNCHANGED givenPassword
  /\ Bounded'
  /\ Rendered
  /\ UNCHANGED pageVars

Register ==
  /\ \E u \in RegUsernames, p \in RegPasswords, r \in Roles : handleRegister(u, p, r)
  /\ UNCHANGED givenPassword
  /\ Bounded'
  /\ Rendered
  /\ UNCHANGED pageVars

RegisterResume ==
  \E i \in 1..Len(pendingRegister) :
    /\ handleRegisterResume(i)
    /\ givenPassword' = [id \in DOMAIN givenPassword \cup {nextId} |->
                           IF id = nextId THEN pendingRegister[i].password
                           ELSE givenPassword[id]]
    /\ Bounded'
    /\ Rendered
    /\ UNCHANGED pageVars

Logout == logout /\ UNCHANGED givenPassword /\ Rendered /\ PageClosed

NextAuth == Login \/ LoginResume \/ Register \/ RegisterResume \/ Logout

SpecAuth == Init /\ [][NextAuth]_vars

\* ------------------------------------------------------------- programs
NewProgram(id, name, description) ==
  [id |-> id, name |-> name, description |-> description, exercises |-> <<>>]

addProgram(name, description) ==
  /\ programs' = Append(programs, NewProgram(nextId, name, description))
  /\ nextId' = nextId + 1
  /\ call' = Returned("addProgram", TRUE, "")
  /\ UNCHANGED <<users, sessions, groups, products, workouts, exercises,
                 currentUser, pendingRegister, pendingLogin>>

\* part_000: programs.map(p => p.id === programId ? updatedProgram : p)
updateProgram(programId, updatedProgram) ==
  /\ programs' = [i \in 1..Len(programs) |->
                    IF programs[i].id = programId THEN updatedProgram ELSE programs[i]]
  /\ call' = Returned("updateProgram", TRUE, "")
  /\ UNCHANGED <<users, sessions, groups, products, workouts, exercises,
                 currentUser, pendingRegister, pendingLogin, nextId>>

\* part_000: the exercise library
addExercise(name, muscleGroup, equipment) ==
  /\ exercises' = Append(exercises, LibraryExercise(nextId, name, muscleGroup, equipment))
  /\ nextId' = nextId + 1
  /\ call' = Returned("addExercise", TRUE, "")
  /\ UNCHANGED <<users, programs, sessions, groups, products, workouts,
                 currentUser, pendingRegister, pendingLogin>>

\* the exercise ProgramsPage.addExerciseToProgram builds from a library
\* exercise
EmbeddedExercise(id, exercise) ==
  [id |-> id, name |-> exercise.name, sets |-> 3, reps |-> 10, weight |-> 0,
   rest |-> 60, notes |-> "", muscleGroup |-> exercise.muscleGroup,
   completed |-> FALSE]

\* ProgramsPage.addExerciseToProgram: returns when the library exercise is
\* not found; reading program.exercises of a program that is not found
\* throws before updateProgram is called
addExerciseToProgram(programId, exerciseId) ==
  LET exercise == FindById(exercises, exerciseId)
      program == FindById(programs, programId)
  IN  IF exercise = <<>>
      THEN /\ call' = Returned("addExerciseToProgram", TRUE, "")
           /\ UNCHANGED <<collections, currentUser, pendingRegister, pendingLogin, nextId>>
      ELSE IF program = <<>>
      THEN /\ call' = Threw("addExerciseToProgram")
           /\ UNCHANGED <<collections, currentUser, pendingRegister, pendingLogin, nextId>>
      ELSE LET updatedProgram ==
                 [program[1] EXCEPT
                    !.exercises = Append(@, EmbeddedExercise(nextId, exercise[1]))]
           IN  /\ programs' = [i \in 1..Len(programs) |->
                                 IF programs[i].id = programId THEN updatedProgram
                                 ELSE programs[i]]
               /\ nextId' = nextId + 1
               /\ call' = Returned("addExerciseToProgram", TRUE, "")
               /\ UNCHANGED <<users, sessions, groups, products, workouts, exercises,
                              currentUser, pendingRegister, pendingLogin>>

assignProgramToUser(username, programId) ==
  /\ users' = [i \in 1..Len(users) |->
                 IF users[i].username = username
                 THEN [users[i] EXCEPT !.assignedProgramId = programId]
                 ELSE users[i]]
  /\ call' = Returned("assignProgram", TRUE, "")
  /\ UNCHANGED <<programs, sessions, groups, products, workouts, exercises,
                 currentUser, pendingRegister, pendingLogin, nextId>>

\* -------------------------------------------------------------- metrics
MetricEntries ==
  { [date |-> "1.1.2026", weight |-> 80, bodyFat |-> 0, chest |-> 0, waist |-> 0],
    [date |-> "2.1.2026", weight |-> 78, bodyFat |-> 20, chest |-> 0, waist |-> 0] }

addMetric(userId, entry) ==
  /\ users' = [i \in 1..Len(users) |->
                 IF users[i].id = userId
                 THEN [users[i] EXCEPT !.metrics = Append(@, entry)]
                 ELSE users[i]]
  /\ call' = Returned("addMetric", TRUE, "")
  /\ UNCHANGED <<programs, sessions, groups, products, workouts, exercises,
                 currentUser, pendingRegister, pendingLogin, nextId>>

\* Dashboard({ user }): the last entry of user.metrics, null when there is
\* none; App passes currentUser as user
lastMetric(user) ==
  IF Len(user.metrics) # 0 THEN <<user.metrics[Len(user.metrics)]>> ELSE <<>>

\* ------------------------------------------------------------- workouts
\* completeWorkout without the dereference of currentUser: the entry is
\* stamped with no user
completeWorkoutUnstamped(programId, exerciseResults, notes) ==
  LET workout == [id |-> nextId, userId |-> Null,
                  programId |-> programId, date |-> "now",
                  exercises |-> exerciseResults, notes |-> notes,
                  duration |-> 0]
  IN  /\ workouts' = Append(workouts, workout)
      /\ nextId' = nextId + 1
      /\ call' = Returned("completeWorkout", TRUE, "")
      /\ UNCHANGED <<users, programs, sessions, groups, products, exercises,
                     currentUser, pendingRegister, pendingLogin>>

\* completeWorkout without its setUsers call
completeWorkoutLogOnly(programId, exerciseResults, notes) ==
  IF currentUser = <<>>
  THEN /\ call' = Threw("completeWorkout")
       /\ UNCHANGED <<collections, currentUser, pendingRegister, pendingLogin, nextId>>
  ELSE LET workout == [id |-> nextId, userId |-> currentUser[1].id,
                       programId |-> programId, date |-> "now",
                       exercises |-> exerciseResults, notes |-> notes,
                       duration |-> 0]
       IN  /\ workouts' = Append(workouts, workout)
           /\ nextId' = nextId + 1
           /\ call' = Returned("completeWorkout", TRUE, "")
           /\ UNCHANGED <<users, programs, sessions, groups, products, exercises,
                          currentUser, pendingRegister, pendingLogin>>

\* completeWorkout: reading currentUser.id of a null currentUser throws
\* before any setter is called
completeWorkout(programId, exerciseResults, notes) ==
  IF currentUser = <<>>
  THEN /\ call' = Threw("completeWorkout")
       /\ UNCHANGED <<collections, currentUser, pendingRegister, pendingLogin, nextId>>
  ELSE LET workout == [id |-> nextId, userId |-> currentUser[1].id,
                       programId |-> programId, date |-> "now",
                       exercises |-> exerciseResults, notes |-> notes,
                       duration |-> 0]
       IN  /\ workouts' = Append(workouts, workout)
           /\ users' = [i \in 1..Len(users) |->
                          IF users[i].id = currentUser[1].id
                          THEN [users[i] EXCEPT !.completedWorkouts = Append(@, workout.id)]
                          ELSE users[i]]
           /\ nextId' = nextId + 1
           /\ call' = Returned("completeWorkout", TRUE, "")
           /\ UNCHANGED <<programs, sessions, groups, products, exercises,
                          currentUser, pendingRegister, pendingLogin>>

\* ------------------------------------------------------------- sessions
CapacityInputs == { <<"0">>, <<"1">>, <<"x">> }

createSession(title, date, time, capacity, description) ==
  /\ sessions' = Append(sessions,
                        [id |-> nextId, title |-> title, date |-> date, time |-> time,
                         capacity |-> ParseInt(capacity), description |-> description,
                         participants |-> <<>>])
  /\ nextId' = nextId + 1
  /\ call' = Returned("createSession", TRUE, "")
  /\ UNCHANGED <<users, programs, groups, products, workouts, exercises,
                 currentUser, pendingRegister, pendingLogin>>

BookedSessionUngated(s, sessionId, userId) ==
  IF s.id = sessionId
  THEN IF Includes(s.participants, userId) THEN s
       ELSE [s EXCEPT !.participants = Append(@, userId)]
  ELSE s

\* the callback of sessions.map in bookSession
BookedSession(s, sessionId, userId) ==
  IF s.id = sessionId
  THEN IF Includes(s.participants, userId) THEN s
       ELSE IF GreaterEq(Len(s.participants), s.capacity) THEN s
       ELSE [s EXCEPT !.participants = Append(@, userId)]
  ELSE s

bookSession(sessionId) ==
  IF currentUser = <<>>
  THEN /\ call' = Returned("bookSession", TRUE, "")
       /\ UNCHANGED <<collections, currentUser, pendingRegister, pendingLogin, nextId>>
  ELSE /\ sessions' = [i \in 1..Len(sessions) |->
                         BookedSession(sessions[i], sessionId, currentUser[1].id)]
       /\ users' = [i \in 1..Len(users) |->
                      IF users[i].id = currentUser[1].id
                      THEN [users[i] EXCEPT !.joinedSessions = Append(@, sessionId)]
                      ELSE users[i]]
       /\ call' = Returned("bookSession", TRUE, "")
       /\ UNCHANGED <<programs, groups, products, workouts, exercises,
                      currentUser, pendingRegister, pendingLogin, nextId>>

\* --------------------------------------------------------------- groups
createGroup(title, date, time, capacity, description) ==
  /\ groups' = Append(groups,
                      [id |-> nextId, title |-> title, date |-> date, time |-> time,
                       capacity |-> ParseInt(capacity), description |-> description,
                       members |-> <<>>])
  /\ nextId' = nextId + 1
  /\ call' = Returned("createGroup", TRUE, "")
  /\ UNCHANGED <<users, programs, sessions, products, workouts, exercises,
                 currentUser, pendingRegister, pendingLogin>>

\* the callback of groups.map in joinGroup
JoinedGroup(g, groupId, userId) ==
  IF g.id = groupId
  THEN IF Includes(g.members, userId) \/ GreaterEq(Len(g.members), g.capacity) THEN g
       ELSE [g EXCEPT !.members = Append(@, userId)]
  ELSE g

joinGroup(groupId) ==
  IF currentUser = <<>>
  THEN /\ call' = Returned("joinGroup", TRUE, "")
       /\ UNCHANGED <<collections, currentUser, pendingRegister, pendingLogin, nextId>>
  ELSE /\ groups' = [i \in 1..Len(groups) |->
                       JoinedGroup(groups[i], groupId, currentUser[1].id)]
       /\ users' = [i \in 1..Len(users) |->
                      IF users[i].id = currentUser[1].id
                      THEN [users[i] EXCEPT !.joinedGroups = Append(@, groupId)]
                      ELSE users[i]]
       /\ call' = Returned("joinGroup", TRUE, "")
       /\ UNCHANGED <<programs, sessions, products, workouts, exercises,
                      currentUser, pendingRegister, pendingLogin, nextId>>

\* ------------------------------------------------------------- products
PriceInputs == { <<"4", "9", ".", "9">>, <<"x">> }

createProduct(name, price, description) ==
  /\ products' = Append(products,
                        [id |-> nextId, name |-> name, price |-> ParseFloat(price),
                         description |-> description])
  /\ nextId' = nextId + 1
  /\ call' = Returned("createProduct", TRUE, "")
  /\ UNCHANGED <<users, programs, sessions, groups, workouts, exercises,
                 currentUser, pendingRegister, pendingLogin>>

\* purchaseProduct: reading purchasedProducts of an undefined user (the
\* current user is not in the users collection) throws
purchaseProductAgain(productId) ==
  IF currentUser = <<>>
  THEN /\ call' = Returned("purchaseProduct", TRUE, "")
       /\ UNCHANGED <<collections, currentUser, pendingRegister, pendingLogin, nextId>>
  ELSE /\ users' = [i \in 1..Len(users) |->
                      IF users[i].id = currentUser[1].id
                      THEN [users[i] EXCEPT !.purchasedProducts = Append(@, productId)]
                      ELSE users[i]]
       /\ call' = Returned("purchaseProduct", TRUE, "")
       /\ UNCHANGED <<programs, sessions, groups, products, workouts, exercises,
                      currentUser, pendingRegister, pendingLogin, nextId>>

purchaseProduct(productId) ==
  IF currentUser = <<>>
  THEN /\ call' = Returned("purchaseProduct", TRUE, "")
       /\ UNCHANGED <<collections, currentUser, pendingRegister, pendingLogin, nextId>>
  ELSE LET user == FindById(users, currentUser[1].id)
       IN  IF user = <<>>
           THEN /\ call' = Threw("purchaseProduct")
                /\ UNCHANGED <<collections, currentUser, pendingRegister, pendingLogin, nextId>>
           ELSE IF Includes(user[1].purchasedProducts, productId)
           THEN /\ call' = Returned("purchaseProduct", TRUE, "")
                /\ UNCHANGED <<collections, currentUser, pendingRegister, pendingLogin, nextId>>
           ELSE /\ users' = [i \in 1..Len(users) |->
                               IF users[i].id = currentUser[1].id
                               THEN [users[i] EXCEPT !.purchasedProducts = Append(@, productId)]
                               ELSE users[i]]
                /\ call' = Returned("purchaseProduct", TRUE, "")
                /\ UNCHANGED <<programs, sessions, groups, products, workouts, exercises,
                               currentUser, pendingRegister, pendingLogin, nextId>>

\* -------------------------------------------------------------- profile
\* the object spread  { ...u, ...data }
Spread(u, data) ==
  [f \in DOMAIN u \cup DOMAIN data |-> IF f \in DOMAIN data THEN data[f] ELSE u[f]]

\* the data object ProfilePage.handleSave builds
ProfileInputs ==
  { [fullName |-> "Alice A", email |-> "a@studio.example", phone |-> "050",
     goals |-> "{weight:70}", waterGoal |-> 3] }

\* saveProfile: with a null currentUser the users.map callback throws on the
\* first user, before any setter is called
saveProfile(data) ==
  IF currentUser = <<>> /\ users # <<>>
  THEN /\ call' = Threw("saveProfile")
       /\ UNCHANGED <<collections, currentUser, pendingRegister, pendingLogin, nextId>>
  ELSE /\ currentUser # <<>>
       /\ users' = [i \in 1..Len(users) |->
                      IF users[i].id = currentUser[1].id
                      THEN Spread(users[i], data)
                      ELSE users[i]]
       /\ currentUser' = <<Spread(currentUser[1], data)>>
       /\ call' = Returned("saveProfile", TRUE, "")
       /\ UNCHANGED <<programs, sessions, groups, products, workouts, exercises,
                      pendingRegister, pendingLogin, nextId>>

\* ------------------------------------------------------ handler inputs
UnknownId == 999

IdsOf(coll) == {coll[i].id : i \in 1..Len(coll)}

AddProgram ==
  /\ addProgram("Strength", "Heavy lifts")
  /\ UNCHANGED givenPassword
  /\ Bounded'
  /\ Rendered
  /\ UNCHANGED pageVars

\* ProgramEditor passes the edited program with its own id
UpdateProgram ==
  /\ \E programId \in IdsOf(programs) \cup {UnknownId} :
       updateProgram(programId, NewProgram(programId, "edited", ""))
  /\ UNCHANGED givenPassword
  /\ Bounded'
  /\ Rendered
  /\ UNCHANGED pageVars

AddExercise ==
  /\ addExercise("Plank", "core", "body weight")
  /\ UNCHANGED givenPassword
  /\ Bounded'
  /\ Rendered
  /\ UNCHANGED pageVars

AddExerciseToProgram ==
  /\ exercises # <<>>
  /\ \E programId \in IdsOf(programs) \cup {UnknownId},
        exerciseId \in {exercises[1].id, UnknownId} :
       addExerciseToProgram(programId, exerciseId)
  /\ UNCHANGED givenPassword
  /\ Bounded'
  /\ Rendered
  /\ UNCHANGED pageVars

\* ProgramsPage offers the client users and the existing programs
AssignProgram ==
  /\ \E i \in 1..Len(users), p \in IdsOf(programs) :
       /\ users[i].role = "client"
       /\ assignProgramToUser(users[i].username, p)
  /\ UNCHANGED givenPassword
  /\ Bounded'
  /\ Rendered
  /\ UNCHANGED pageVars

\* MetricsPage passes the id of the authenticated user
AddMetric ==
  /\ currentUser # <<>>
  /\ \E e \in MetricEntries : addMetric(currentUser[1].id, e)
  /\ UNCHANGED givenPassword
  /\ Bounded'
  /\ Rendered
  /\ UNCHANGED pageVars

CompleteWorkout ==
  /\ \E p \in IdsOf(programs) : completeWorkout(p, <<>>, "felt good")
  /\ UNCHANGED givenPassword
  /\ Bounded'
  /\ Rendered
  /\ UNCHANGED pageVars

CreateSession ==
  /\ \E c \in CapacityInputs : createSession("Yoga", "2026-01-05", "18:00", c, "")
  /\ UNCHANGED givenPassword
  /\ Bounded'
  /\ Rendered
  /\ UNCHANGED pageVars

BookSession ==
  /\ \E id \in IdsOf(sessions) : bookSession(id)
  /\ UNCHANGED givenPassword
  /\ Bounded'
  /\ Rendered
  /\ UNCHANGED pageVars

CreateGroup ==
  /\ \E c \in CapacityInputs : createGroup("Runners", "2026-01-06", "07:00", c, "")
  /\ UNCHANGED givenPassword
  /\ Bounded'
  /\ Rendered
  /\ UNCHANGED pageVars

JoinGroup ==
  /\ \E id \in IdsOf(groups) : joinGroup(id)
  /\ UNCHANGED givenPassword
  /\ Bounded'
  /\ Rendered
  /\ UNCHANGED pageVars

CreateProduct ==
  /\ \E p \in PriceInputs : createProduct("Protein bar", p, "")
  /\ UNCHANGED givenPassword
  /\ Bounded'
  /\ Rendered
  /\ UNCHANGED pageVars

PurchaseProduct ==
  /\ \E id \in IdsOf(products) \cup {UnknownId} : purchaseProduct(id)
  /\ UNCHANGED givenPassword
  /\ Bounded'
  /\ Rendered
  /\ UNCHANGED pageVars

SaveProfile ==
  /\ \E d \in ProfileInputs : saveProfile(d)
  /\ UNCHANGED givenPassword
  /\ Bounded'
  /\ Rendered
  /\ UNCHANGED pageVars

\* Sessions and groups: creation and capacity-gated enrollment
NextEnroll == LoginSeeded \/ Logout \/ CreateSession \/ BookSession \/ CreateGroup \/ JoinGroup

SpecEnroll == Init /\ [][NextEnroll]_vars

\* The store: product creation and purchase
NextStore == LoginSeeded \/ Logout \/ CreateProduct \/ PurchaseProduct

SpecStore == Init /\ [][NextStore]_vars

\* No async handler call is suspended
Quiescent == pendingLogin = <<>> /\ pendingRegister = <<>>

\* The handlers that write the users collection or the authenticated user:
\* seed accounts log in, new accounts register, and at most MaxOverlap async
\* calls are suspended at a time
NextUsers ==
  /\ \/ LoginSeeded \/ Register \/ RegisterResume \/ Logout
     \/ AddMetric \/ SaveProfile \/ AssignProgram
  /\ Len(pendingLogin') + Len(pendingRegister') <= MaxOverlap

SpecUsers == Init /\ [][NextUsers]_vars

\* Serialized use: every call is awaited before the next call is made
NextSeq ==
  \/ /\ Quiescent
     /\ Login \/ Register \/ Logout \/ SaveProfile
  \/ LoginResume
  \/ RegisterResume

SpecSeq == Init /\ [][NextSeq]_vars

\* The workout log: completeWorkout called by a seed account or by nobody
NextLog == LoginSeeded \/ Logout \/ AddProgram \/ CompleteWorkout

SpecLog == Init /\ [][NextLog]_vars

\* ------------------------------------------------------- ProgramEditor
\* Array.prototype.filter(e => e.id !== exerciseId)
WithoutId(exs, exerciseId) ==
  LET Keep[i \in 0..Len(exs)] ==
        IF i = 0 THEN <<>>
        ELSE IF exs[i].id # exerciseId THEN Append(Keep[i - 1], exs[i])
        ELSE Keep[i - 1]
  IN  Keep[Len(exs)]

\* ProgramEditor({ program }): program is ProgramsPage's editingProgram, the
\* program object the editor was opened with
removeExerciseFromProgram(exerciseId) ==
  LET program == editingProgram[1]
      updatedProgram ==
        [program EXCEPT !.exercises = WithoutId(program.exercises, exerciseId)]
  IN  updateProgram(program.id, updatedProgram)

updateExerciseInProgram(exerciseId, field, value) ==
  LET program == editingProgram[1]
      updatedProgram ==
        [program EXCEPT
           !.exercises = [i \in 1..Len(program.exercises) |->
                            IF program.exercises[i].id = exerciseId
                            THEN [program.exercises[i] EXCEPT ![field] = value]
                            ELSE program.exercises[i]]]
  IN  updateProgram(program.id, updatedProgram)

\* the inputs of the editor: the notes textarea and the sets input (the
\* number parseInt gives for the digits typed)
FieldInputs == { <<"notes", "slow">>, <<"sets", 4>> }

\* the programs page and its editor are shown to a logged-in trainer
OnProgramsPage ==
  /\ currentUser # <<>>
  /\ currentUser[1].role = "trainer"
  /\ UNCHANGED <<givenPassword, workoutsPage, fromAbandoned>>
  /\ Bounded'
  /\ Rendered

\* the edit button of a listed program: setEditingProgram(p)
OpenEditor ==
  /\ editingProgram = <<>>
  /\ \E i \in 1..Len(programs) : editingProgram' = <<programs[i]>>
  /\ call' = Returned("setEditingProgram", TRUE, "")
  /\ UNCHANGED <<collections, currentUser, pendingRegister, pendingLogin, nextId>>
  /\ OnProgramsPage

\* onClose: setEditingProgram(null)
CloseEditor ==
  /\ editingProgram # <<>>
  /\ editingProgram' = <<>>
  /\ call' = Returned("onClose", TRUE, "")
  /\ UNCHANGED <<collections, currentUser, pendingRegister, pendingLogin, nextId>>
  /\ OnProgramsPage

\* the editor's add button with the first library exercise selected
AddToEditedProgram ==
  /\ editingProgram # <<>>
  /\ exercises # <<>>
  /\ addExerciseToProgram(editingProgram[1].id, exercises[1].id)
  /\ UNCHANGED editingProgram
  /\ OnProgramsPage

\* the editor lists the exercises of its program prop
UpdateExerciseInProgram ==
  /\ editingProgram # <<>>
  /\ \E exerciseId \in IdsOf(editingProgram[1].exercises), in \in FieldInputs :
       updateExerciseInProgram(exerciseId, in[1], in[2])
  /\ UNCHANGED editingProgram
  /\ OnProgramsPage

RemoveExerciseFromProgram ==
  /\ editingProgram # <<>>
  /\ \E exerciseId \in IdsOf(editingProgram[1].exercises) :
       removeExerciseFromProgram(exerciseId)
  /\ UNCHANGED editingProgram
  /\ OnProgramsPage

NextEditor ==
  \/ currentUser = <<>> /\ LoginSeeded
  \/ Logout
  \/ OpenEditor \/ CloseEditor
  \/ AddToEditedProgram \/ UpdateExerciseInProgram \/ RemoveExerciseFromProgram

SpecEditor == Init /\ [][NextEditor]_vars

\* ------------------------------------------ the pages' forms and buttons
RoleIsAny(role) == TRUE

\* App renders the pages for a logged-in user only, and a page renders a
\* form or a button under `user.role === role &&`, user being currentUser
RoleIs(role) == currentUser # <<>> /\ currentUser[1].role = role

\* the `disabled` attribute of the book and join buttons
EnrollDisabled(enrolled, capacity, user) ==
  Includes(enrolled, user.id) \/ GreaterEq(Len(enrolled), capacity)

\* ProgramsPage.handleCreate, handleAssign; ExercisesPage.handleAdd
SubmitProgram == RoleIs("trainer") /\ AddProgram
SubmitAssign == RoleIs("trainer") /\ AssignProgram
SubmitExercise == RoleIs("trainer") /\ AddExercise

\* SchedulePage, GroupsPage, StorePage: handleCreate
SubmitSession == RoleIs("trainer") /\ CreateSession
SubmitGroup == RoleIs("trainer") /\ CreateGroup
SubmitProduct == RoleIs("trainer") /\ CreateProduct

\* the book button of a listed session
ClickBook ==
  /\ RoleIs("client")
  /\ \E i \in 1..Len(sessions) :
       /\ ~EnrollDisabled(sessions[i].participants, sessions[i].capacity, currentUser[1])
       /\ bookSession(sessions[i].id)
  /\ UNCHANGED givenPassword
  /\ Bounded'
  /\ Rendered
  /\ UNCHANGED pageVars

\* the join button of a listed group
ClickJoin ==
  /\ RoleIs("client")
  /\ \E i \in 1..Len(groups) :
       /\ ~EnrollDisabled(groups[i].members, groups[i].capacity, currentUser[1])
       /\ joinGroup(groups[i].id)
  /\ UNCHANGED givenPassword
  /\ Bounded'
  /\ Rendered
  /\ UNCHANGED pageVars

\* the purchase button of a listed product
ClickPurchase ==
  /\ RoleIs("client")
  /\ \E i \in 1..Len(products) :
       /\ ~Includes(currentUser[1].purchasedProducts, products[i].id)
       /\ purchaseProduct(products[i].id)
  /\ UNCHANGED givenPassword
  /\ Bounded'
  /\ Rendered
  /\ UNCHANGED pageVars

\* The handlers as the pages call them; the login view is shown while
\* nobody is logged in
NextPages ==
  \/ currentUser = <<>> /\ LoginSeeded
  \/ Logout
  \/ SubmitProgram \/ SubmitAssign \/ SubmitExercise
  \/ SubmitSession \/ SubmitGroup \/ SubmitProduct
  \/ ClickBook \/ ClickJoin \/ ClickPurchase

SpecPages == Init /\ [][NextPages]_vars

\* ------------------------------------------------------ mount and reload
\* App's mount effect: loadData, the setters, setLoading(false); the render
\* that follows runs every persist effect, since loading changed
Mount ==
  /\ loading
  /\ ~(call.op = "mount" /\ call.threw)
  /\ UNCHANGED <<currentUser, pendingRegister, pendingLogin, pageVars>>
  /\ LET d == loadData(storage, nextId)
     IN  IF d.threw
         THEN /\ call' = Threw("mount")
              /\ storage' = d.storage
              /\ nextId' = d.nextId
              /\ UNCHANGED <<collections, loading, givenPassword>>
         ELSE /\ users' = d.users
              /\ programs' = d.programs
              /\ sessions' = d.sessions
              /\ groups' = d.groups
              /\ products' = d.products
              /\ workouts' = d.workouts
              /\ exercises' = d.exercises
              /\ nextId' = d.nextId
              /\ loading' = FALSE
              /\ storage' = persistEffects(persistEffectsOfMount(d.storage))
              /\ givenPassword' =
                   [id \in DOMAIN givenPassword \cup
                           (IF d.users = FreshUsers(nextId) THEN IdsOf(d.users) ELSE {}) |->
                      IF id \in DOMAIN givenPassword THEN givenPassword[id]
                      ELSE FindById(d.users, id)[1].password]
              /\ call' = Returned("mount", TRUE, "")
              /\ (\A key \in Keys : IsArray(StateOf(key)')) => Bounded'

\* The page is loaded again: App is constructed anew, every useState holds
\* its initial value, localStorage is what it was
Reload ==
  /\ ~loading
  /\ users' = <<>>
  /\ programs' = <<>>
  /\ sessions' = <<>>
  /\ groups' = <<>>
  /\ products' = <<>>
  /\ workouts' = <<>>
  /\ exercises' = <<>>
  /\ currentUser' = <<>>
  /\ pendingRegister' = <<>>
  /\ pendingLogin' = <<>>
  /\ loading' = TRUE
  /\ call' = Returned("reload", TRUE, "")
  /\ PageClosed
  /\ UNCHANGED <<storage, nextId, givenPassword>>

\* Collections of the entity shapes, as an earlier run can have saved them
SavedUsers == <<NewUser(101, "dana", HashOfPw123, "client")>>

SavedPrograms == <<NewProgram(102, "strength", "")>>

SavedSessions(capacity) ==
  << [id |-> 103, title |-> "yoga", date |-> "2026-01-01", time |-> "10:00",
      capacity |-> capacity, description |-> "", participants |-> <<101>>] >>

SavedGroups ==
  << [id |-> 104, title |-> "runners", date |-> "2026-01-01", time |-> "10:00",
      capacity |-> Num(2), description |-> "", members |-> <<>>] >>

SavedProducts == << [id |-> 105, name |-> "mat", price |-> Num(49), description |-> ""] >>

SavedWorkouts ==
  << [id |-> 106, userId |-> 101, programId |-> 102, date |-> "now",
      exercises |-> <<>>, notes |-> "", duration |-> 0] >>

SavedExercises == <<LibraryExercise(107, "plank", "core", "body weight")>>

WellFormed(key) ==
  CASE key = USERS_KEY -> {<<>>, SavedUsers}
    [] key = PROGRAMS_KEY -> {<<>>, SavedPrograms}
    [] key = SESSIONS_KEY -> {<<>>, SavedSessions(Num(1))}
    [] key = GROUPS_KEY -> {<<>>, SavedGroups}
    [] key = PRODUCTS_KEY -> {<<>>, SavedProducts}
    [] key = WORKOUTS_KEY -> {<<>>, SavedWorkouts}
    [] key = EXERCISES_KEY -> {<<>>, SavedExercises}

\* What a load can find under a key: nothing, a text that is not JSON, what
\* save wrote for a well-formed collection; under the users key also the
\* empty string, under the sessions key also what save wrote for a session
\* created with a non-numeric capacity
StoredItems(key) ==
  {NoItem, NotJson} \cup {JSONstringify(c) : c \in WellFormed(key)}
    \cup (IF key = USERS_KEY THEN {EmptyString} ELSE {})
    \cup (IF key = SESSIONS_KEY THEN {JSONstringify(SavedSessions(NaN))} ELSE {})

\* App constructed over a store an earlier run left behind, before the
\* mount effect has run
InitLoad ==
  /\ users = <<>>
  /\ programs = <<>>
  /\ sessions = <<>>
  /\ groups = <<>>
  /\ products = <<>>
  /\ workouts = <<>>
  /\ exercises = <<>>
  /\ currentUser = <<>>
  /\ pendingRegister = <<>>
  /\ pendingLogin = <<>>
  /\ nextId = 1
  /\ givenPassword = [id \in {101} |-> "pw123"]
  /\ call = Returned("construct", TRUE, "")
  /\ loading = TRUE
  /\ workoutsPage = InitialWorkoutsPage
  /\ fromAbandoned = NothingAbandoned
  /\ editingProgram = <<>>
  /\ \E u \in StoredItems(USERS_KEY), p \in StoredItems(PROGRAMS_KEY),
        se \in StoredItems(SESSIONS_KEY), g \in StoredItems(GROUPS_KEY),
        pr \in StoredItems(PRODUCTS_KEY), w \in StoredItems(WORKOUTS_KEY),
        e \in StoredItems(EXERCISES_KEY) :
       storage = [key \in Keys |->
                    CASE key = USERS_KEY -> u
                      [] key = PROGRAMS_KEY -> p
                      [] key = SESSIONS_KEY -> se
                      [] key = GROUPS_KEY -> g
                      [] key = PRODUCTS_KEY -> pr
                      [] key = WORKOUTS_KEY -> w
                      [] key = EXERCISES_KEY -> e]

\* A JSON text that is not the text of an array
NonArrayTexts == {JsonText(ParsedNull), JsonText(ParsedObject), JsonText(ParsedNumber)}

\* The saved collection of WellFormed(key) that has records
SavedUnder(key) == CHOOSE c \in WellFormed(key) : c # <<>>

\* App constructed over a store in which one key holds a JSON text that is
\* not an array, and every other key holds nothing or a saved collection
InitLoadAny ==
  /\ users = <<>>
  /\ programs = <<>>
  /\ sessions = <<>>
  /\ groups = <<>>
  /\ products = <<>>
  /\ workouts = <<>>
  /\ exercises = <<>>
  /\ currentUser = <<>>
  /\ pendingRegister = <<>>
  /\ pendingLogin = <<>>
  /\ nextId = 1
  /\ givenPassword = [id \in {101} |-> "pw123"]
  /\ call = Returned("construct", TRUE, "")
  /\ loading = TRUE
  /\ workoutsPage = InitialWorkoutsPage
  /\ fromAbandoned = NothingAbandoned
  /\ editingProgram = <<>>
  /\ \E odd \in Keys, text \in NonArrayTexts, saved \in SUBSET Keys :
       storage = [key \in Keys |->
                    IF key = odd THEN text
                    ELSE IF key \in saved THEN JSONstringify(SavedUnder(key))
                    ELSE NoItem]

\* The mount over such a store, and the page loaded again after it
NextLoadAny == Mount \/ Reload

SpecLoadAny == InitLoadAny /\ [][NextLoadAny]_vars

\* The trainer's program and exercise-library handlers (part_000)
NextPrograms ==
  \/ LoginSeeded \/ Logout
  \/ AddProgram \/ UpdateProgram \/ AddExercise \/ AddExerciseToProgram

SpecPrograms == Init /\ [][NextPrograms]_vars

\* ------------------------------------------- calls with an id nobody has
UnknownUsername == "nobody"

AssignUnknownUser ==
  /\ \E programId \in IdsOf(programs) : assignProgramToUser(UnknownUsername, programId)
  /\ UNCHANGED givenPassword
  /\ Bounded'
  /\ Rendered
  /\ UNCHANGED pageVars

AddMetricUnknownUser ==
  /\ \E e \in MetricEntries : addMetric(UnknownId, e)
  /\ UNCHANGED givenPassword
  /\ Bounded'
  /\ Rendered
  /\ UNCHANGED pageVars

BookUnknownSession ==
  /\ bookSession(UnknownId)
  /\ UNCHANGED givenPassword
  /\ Bounded'
  /\ Rendered
  /\ UNCHANGED pageVars

JoinUnknownGroup ==
  /\ joinGroup(UnknownId)
  /\ UNCHANGED givenPassword
  /\ Bounded'
  /\ Rendered
  /\ UNCHANGED pageVars

\* Handlers called with ids that resolve and ids that do not
NextUnknown ==
  \/ LoginSeeded \/ Logout \/ CreateSession
  \/ UpdateProgram \/ AssignUnknownUser \/ AddMetricUnknownUser
  \/ BookUnknownSession \/ JoinUnknownGroup

SpecUnknown == Init /\ [][NextUnknown]_vars

\* -------------------------------------------------- WorkoutsPage (part_000)
\* the programs the start panel offers to user
availablePrograms(user) ==
  IF user.role = "trainer" THEN IdsOf(programs)
  ELSE {id \in IdsOf(programs) : id = user.assignedProgramId}

\* startWorkout: a fresh result per exercise of the program; workoutNotes is
\* not written
startWorkout(programId) ==
  LET program == FindById(programs, programId)
  IN  IF program = <<>>
      THEN UNCHANGED workoutsPage
      ELSE workoutsPage' =
             [workoutsPage EXCEPT
                !.workoutInProgress = program,
                !.exerciseResults =
                   [i \in 1..Len(program[1].exercises) |->
                      [exerciseId |-> program[1].exercises[i].id,
                       name |-> program[1].exercises[i].name,
                       sets |-> program[1].exercises[i].sets,
                       completedSets |-> <<>>,
                       notes |-> ""]]]

\* completeSet: completedSets[setIndex] = { reps, weight }; setIndex counts
\* from 1 here
completeSet(exerciseIndex, setIndex, reps, weight) ==
  LET done == [reps |-> ParseInt(reps), weight |-> ParseFloat(weight)]
      sets == workoutsPage.exerciseResults[exerciseIndex].completedSets
  IN  workoutsPage' =
        [workoutsPage EXCEPT
           !.exerciseResults[exerciseIndex].completedSets =
              IF setIndex = Len(sets) + 1 THEN Append(sets, done)
              ELSE [sets EXCEPT ![setIndex] = done]]

\* the textarea's onChange
setWorkoutNotes(text) == workoutsPage' = [workoutsPage EXCEPT !.workoutNotes = text]

\* finishWorkout: completeWorkout with the page's state, then the page's
\* state is cleared (not reached when completeWorkout throws)
finishWorkout ==
  /\ completeWorkout(workoutsPage.workoutInProgress[1].id,
                     workoutsPage.exerciseResults, workoutsPage.workoutNotes)
  /\ IF call'.threw THEN UNCHANGED workoutsPage
     ELSE workoutsPage' = InitialWorkoutsPage

\* the cancel button: setWorkoutInProgress(null)
abandonWorkout == workoutsPage' = [workoutsPage EXCEPT !.workoutInProgress = <<>>]

NoteInputs == {"felt strong"}

\* The page is shown to a logged-in user; a page handler that calls no App
\* handler leaves App's state as it is
OnWorkoutsPage ==
  /\ currentUser # <<>>
  /\ UNCHANGED <<collections, currentUser, pendingRegister, pendingLogin, nextId,
                 givenPassword, editingProgram>>
  /\ Rendered

\* the start panel is shown while no workout is in progress
StartWorkout ==
  /\ currentUser # <<>>
  /\ workoutsPage.workoutInProgress = <<>>
  /\ \E programId \in availablePrograms(currentUser[1]) : startWorkout(programId)
  /\ fromAbandoned' = [fromAbandoned EXCEPT !.results = FALSE]
  /\ call' = Returned("startWorkout", TRUE, "")
  /\ OnWorkoutsPage

\* the inputs of the first set of every exercise
CompleteSet ==
  /\ workoutsPage.workoutInProgress # <<>>
  /\ \E exerciseIndex \in 1..Len(workoutsPage.exerciseResults) :
       completeSet(exerciseIndex, 1, <<"8">>, <<"0">>)
  /\ UNCHANGED fromAbandoned
  /\ call' = Returned("completeSet", TRUE, "")
  /\ OnWorkoutsPage

TypeNotes ==
  /\ workoutsPage.workoutInProgress # <<>>
  /\ \E text \in NoteInputs : setWorkoutNotes(text)
  /\ fromAbandoned' = [fromAbandoned EXCEPT !.notes = FALSE]
  /\ call' = Returned("setWorkoutNotes", TRUE, "")
  /\ OnWorkoutsPage

FinishWorkout ==
  /\ currentUser # <<>>
  /\ workoutsPage.workoutInProgress # <<>>
  /\ finishWorkout
  /\ fromAbandoned' = NothingAbandoned
  /\ UNCHANGED <<givenPassword, editingProgram>>
  /\ Bounded'
  /\ Rendered

AbandonWorkout ==
  /\ workoutsPage.workoutInProgress # <<>>
  /\ abandonWorkout
  /\ fromAbandoned' =
       [notes |-> workoutsPage.workoutNotes # "",
        results |-> \E i \in 1..Len(workoutsPage.exerciseResults) :
                      workoutsPage.exerciseResults[i].completedSets # <<>>]
  /\ call' = Returned("abandonWorkout", TRUE, "")
  /\ OnWorkoutsPage

\* another page is chosen in the navigation bar
LeaveWorkoutsPage ==
  /\ currentUser # <<>>
  /\ workoutsPage # InitialWorkoutsPage
  /\ PageClosed
  /\ call' = Returned("setActivePage", TRUE, "")
  /\ UNCHANGED <<collections, currentUser, pendingRegister, pendingLogin, nextId,
                 givenPassword>>
  /\ Rendered

\* A workout is started, recorded, finished or abandoned
NextWorkout ==
  \/ LoginSeeded \/ Logout \/ AssignProgram
  \/ StartWorkout \/ CompleteSet \/ TypeNotes \/ FinishWorkout \/ AbandonWorkout
  \/ LeaveWorkoutsPage \/ Reload \/ Mount

SpecWorkout == Init /\ [][NextWorkout]_vars

\* Loading a store, changing collections, loading again
NextLoad == Mount \/ Reload \/ CreateSession \/ CreateProduct

SpecLoad == InitLoad /\ [][NextLoad]_vars

\* The number of list entries over the records of a collection
RECURSIVE SumOver(_, _)
SumOver(coll, field) ==
  IF coll = <<>> THEN 0 ELSE Len(Head(coll)[field]) + SumOver(Tail(coll), field)

\* The number of records of a collection whose field is not v
RECURSIVE CountNot(_, _, _)
CountNot(coll, field, v) ==
  IF coll = <<>> THEN 0
  ELSE (IF Head(coll)[field] # v THEN 1 ELSE 0) + CountNot(Tail(coll), field, v)

\* How much the handlers have done since the seeded state: ids generated,
\* programs assigned and edited, profiles saved, entries appended to the
\* lists of the users, calls suspended
WorkDone ==
  (nextId - FirstFreeId)
  + CountNot(users, "assignedProgramId", Null) + CountNot(users, "email", "")
  + (Len(programs) - CountNot(programs, "name", "edited"))
  + SumOver(users, "metrics") + SumOver(users, "joinedSessions")
  + SumOver(users, "joinedGroups") + SumOver(users, "purchasedProducts")
  + Len(pendingLogin) + Len(pendingRegister)

\* Every handler that writes a collection, and a new page load, while the
\* work done is at most MaxWork
NextPersist ==
  /\ \/ LoginSeeded \/ Logout \/ Register \/ RegisterResume
     \/ AddProgram \/ UpdateProgram \/ AddExercise \/ AddExerciseToProgram
     \/ AssignProgram \/ AddMetric \/ SaveProfile
     \/ CreateSession \/ BookSession \/ CreateGroup \/ JoinGroup
     \/ CreateProduct \/ PurchaseProduct
     \/ StartWorkout \/ FinishWorkout
     \/ Reload \/ Mount
  /\ WorkDone' <= MaxWork

SpecPersist == Init /\ [][NextPersist]_vars

\* Every handler of both variants
Next ==
  \/ Login \/ LoginResume \/ Register \/ RegisterResume \/ Logout
  \/ AddProgram \/ UpdateProgram \/ AddExercise \/ AddExerciseToProgram
  \/ AssignProgram \/ AddMetric \/ CompleteWorkout
  \/ CreateSession \/ BookSession \/ CreateGroup \/ JoinGroup
  \/ CreateProduct \/ PurchaseProduct \/ SaveProfile

Spec == Init /\ [][Next]_vars

\* ================================================================ claims

NonNegativeCapacity(c) == ~c.isNaN /\ c.n >= 0

WithinCapacity ==
  /\ \A i \in 1..Len(sessions) :
       NonNegativeCapacity(sessions[i].capacity)
         => Len(sessions[i].participants) <= sessions[i].capacity.n
  /\ \A i \in 1..Len(groups) :
       NonNegativeCapacity(groups[i].capacity)
         => Len(groups[i].members) <= groups[i].capacity.n

AtCapacityUnchanged ==
  /\ \A i \in 1..Len(sessions) :
       (/\ GreaterEq(Len(sessions[i].participants), sessions[i].capacity)
        /\ bookSession(sessions[i].id))
         => /\ Len(sessions') = Len(sessions)
            /\ sessions'[i].participants = sessions[i].participants
  /\ \A i \in 1..Len(groups) :
       (/\ GreaterEq(Len(groups[i].members), groups[i].capacity)
        /\ joinGroup(groups[i].id))
         => /\ Len(groups') = Len(groups)
            /\ groups'[i].members = groups[i].members

\* C1: in every reachable state a session or group created with a
\* non-negative integer capacity has at most that many participants
\* (members), and a bookSession/joinGroup call made while the list is at or
\* over capacity leaves the participant (member) list as it was.
C1_CapacityNeverExceeded == []WithinCapacity /\ [][AtCapacityUnchanged]_vars

\* C1 witness: a full capacity-1 session after a booking call by a user who
\* is not one of its participants, and a full capacity-1 group.
C1_Witness ==
  /\ call.op = "bookSession"
  /\ currentUser # <<>>
  /\ \E i \in 1..Len(sessions) :
       /\ sessions[i].capacity = Num(1)
       /\ Len(sessions[i].participants) = 1
       /\ ~Includes(sessions[i].participants, currentUser[1].id)
  /\ \E i \in 1..Len(groups) :
       /\ groups[i].capacity = Num(1)
       /\ Len(groups[i].members) = 1

\* C2: when an authenticated user who is not a participant books a session
\* that is at capacity, the session keeps its participants and that user's
\* joinedSessions does not contain the session id afterwards; likewise for
\* joinGroup and joinedGroups.
C2_FullBookingLeavesNoTrace ==
  [][/\ \A i \in 1..Len(sessions) :
          (/\ currentUser # <<>>
           /\ ~Includes(sessions[i].participants, currentUser[1].id)
           /\ GreaterEq(Len(sessions[i].participants), sessions[i].capacity)
           /\ bookSession(sessions[i].id))
            => /\ sessions'[i].participants = sessions[i].participants
               /\ \A j \in 1..Len(users') :
                    users'[j].id = currentUser[1].id
                      => ~Includes(users'[j].joinedSessions, sessions[i].id)
     /\ \A i \in 1..Len(groups) :
          (/\ currentUser # <<>>
           /\ ~Includes(groups[i].members, currentUser[1].id)
           /\ GreaterEq(Len(groups[i].members), groups[i].capacity)
           /\ joinGroup(groups[i].id))
            => /\ groups'[i].members = groups[i].members
               /\ \A j \in 1..Len(users') :
                    users'[j].id = currentUser[1].id
                      => ~Includes(users'[j].joinedGroups, groups[i].id)]_vars

\* C3: when a user who already is a participant of a session (member of a
\* group) books (joins) it again, neither the sessions (groups) collection
\* nor the users collection changes.
C3_DoubleEnrollmentNoOp ==
  [][/\ \A i \in 1..Len(sessions) :
          (/\ currentUser # <<>>
           /\ Includes(sessions[i].participants, currentUser[1].id)
           /\ bookSession(sessions[i].id))
            => sessions' = sessions /\ users' = users
     /\ \A i \in 1..Len(groups) :
          (/\ currentUser # <<>>
           /\ Includes(groups[i].members, currentUser[1].id)
           /\ joinGroup(groups[i].id))
            => groups' = groups /\ users' = users]_vars

\* C4: a register call whose username is already in the users collection
\* returns success:false and leaves the users collection unchanged.
C4_DuplicateUsernameRejected ==
  [][\A u \in RegUsernames, p \in RegPasswords, r \in Roles :
       (/\ \E i \in 1..Len(users) : users[i].username = u
        /\ handleRegister(u, p, r))
         => /\ call'.op = "register"
            /\ call'.success = FALSE
            /\ ~call'.threw
            /\ users' = users]_vars

\* C4 witness: a register call was turned down because the username exists.
C4_Witness ==
  /\ call = Answer("register", <<"alice", "pw123">>, FALSE, MsgUsernameExists)
  /\ Len(users) = 3

\* C5: a register call with an empty username or an empty password returns
\* success:false with a message, does not throw, and leaves the users
\* collection unchanged.
C5_EmptyFieldRejected ==
  [][\A u \in RegUsernames, p \in RegPasswords, r \in Roles :
       ((u = "" \/ p = "") /\ handleRegister(u, p, r))
         => /\ call'.op = "register"
            /\ call'.success = FALSE
            /\ call'.message # ""
            /\ ~call'.threw
            /\ users' = users]_vars

\* C5 witness: a register call was turned down for an empty field.
C5_Witness == call = Answer("register", <<"alice", "">>, FALSE, MsgFillFields)

EmptyProfileDefaults(u) ==
  /\ u.fullName = "" /\ u.email = "" /\ u.phone = "" /\ u.goals = "{}"
  /\ u.waterGoal = 2 /\ u.assignedProgramId = Null
  /\ u.joinedSessions = <<>> /\ u.joinedGroups = <<>>
  /\ u.purchasedProducts = <<>> /\ u.completedWorkouts = <<>>
  /\ u.metrics = <<>>

RegisterAppendsHashedUser ==
  \A i \in 1..Len(pendingRegister) :
    handleRegisterResume(i)
      => LET k == pendingRegister[i]
             new == users'[Len(users')]
         IN  /\ call' = Answer("register", <<k.username, k.password>>, TRUE, MsgRegistered)
             /\ Len(users') = Len(users) + 1
             /\ SubSeq(users', 1, Len(users)) = users
             /\ new.username = k.username
             /\ new.role = k.role
             /\ Len(new.password) = 64
             /\ new.password # k.password
             /\ EmptyProfileDefaults(new)

LoginAfterRegisterSucceeds ==
  /\ \A u \in LoginUsernames, p \in LoginPasswords :
       (/\ handleLogin(u, p)
        /\ \E i \in 1..Len(users) :
             /\ users[i].username = u
             /\ users[i].id >= FirstFreeId
             /\ givenPassword[users[i].id] = p)
         => /\ call'.op = "loginAwait"
            /\ Len(pendingLogin') = Len(pendingLogin) + 1
            /\ pendingLogin'[Len(pendingLogin')].user \in {users[i] : i \in 1..Len(users)}
            /\ pendingLogin'[Len(pendingLogin')].user.username = u
            /\ pendingLogin'[Len(pendingLogin')].password = p
  /\ \A i \in 1..Len(pendingLogin) :
       (/\ handleLoginResume(i)
        /\ pendingLogin[i].user.id >= FirstFreeId
        /\ givenPassword[pendingLogin[i].user.id] = pendingLogin[i].password)
         => /\ call'.op = "login"
            /\ call'.success
            /\ currentUser' = <<pendingLogin[i].user>>

\* C6: with every call awaited before the next, a register call that gets
\* past its checks appends exactly one user, whose stored password is a
\* 64-character string different from the password given, with empty
\* profile defaults, and returns success:true; a login with the username and
\* password of a registered account then returns success:true and makes that
\* user the authenticated user.
C6_RegisterThenLogin == [][RegisterAppendsHashedUser /\ LoginAfterRegisterSucceeds]_vars

\* C6 witness: alice registered with "pw123" and then logged in with it; her
\* stored password is the SHA-256 digest.
C6_Witness ==
  /\ call = Answer("login", <<"alice", "pw123">>, TRUE, "")
  /\ currentUser # <<>>
  /\ currentUser[1].username = "alice"
  /\ currentUser[1].password = HashOfPw123
  /\ Len(users) = 3
  /\ users[3] = currentUser[1]

LoginOutcomeAtCall ==
  \A u \in LoginUsernames, p \in LoginPasswords :
    handleLogin(u, p)
      => LET idx == {i \in 1..Len(users) : users[i].username = u}
         IN  IF idx = {}
             THEN call' = Answer("login", <<u, p>>, FALSE, MsgUserNotFound)
             ELSE LET i == CHOOSE m \in idx : \A n \in idx : m <= n
                  IN
                    \/ /\ call'.op = "loginAwait"
                       /\ users[i].id >= FirstFreeId
                       /\ pendingLogin' = Append(pendingLogin,
                                                 [user |-> users[i], username |-> u, password |-> p])
                    \/ /\ p = givenPassword[users[i].id]
                       /\ call' = Answer("login", <<u, p>>, TRUE, "")
                    \/ /\ p # givenPassword[users[i].id]
                       /\ call' = Answer("login", <<u, p>>, FALSE, MsgWrongPassword)

LoginOutcomeAtResume ==
  \A i \in 1..Len(pendingLogin) :
    handleLoginResume(i)
      => LET k == pendingLogin[i]
         IN  /\ IF k.password = givenPassword[k.user.id]
                THEN call' = Answer("login", <<k.username, k.password>>, TRUE, "")
                ELSE call' = Answer("login", <<k.username, k.password>>, FALSE, MsgWrongPassword)
             /\ k.password = k.user.password => ~call'.success

\* C7: login finds the user by exact username; it answers "user not found"
\* when no user has that username, "wrong password" when the password given
\* is not the one the account was seeded or registered with, and succeeds
\* otherwise; the stored digest of a registered account is not accepted as
\* its password.
C7_LoginOutcome == [][LoginOutcomeAtCall /\ LoginOutcomeAtResume]_vars

\* C7 witness: a login to the registered account alice that supplied her
\* stored digest as the password was answered "wrong password".
C7_Witness ==
  /\ call = Answer("login", <<"alice", HashOfPw123>>, FALSE, MsgWrongPassword)
  /\ \E i \in 1..Len(users) :
       users[i].username = "alice" /\ users[i].password = HashOfPw123

LoginFrame ==
  /\ \A u \in LoginUsernames, p \in LoginPasswords :
       handleLogin(u, p)
         => /\ collections' = collections
            /\ call'.success
                 => /\ currentUser' # <<>>
                    /\ currentUser'[1] \in {users[i] : i \in 1..Len(users)}
                    /\ currentUser'[1].username = u
            /\ ~call'.success => currentUser' = currentUser
  /\ \A i \in 1..Len(pendingLogin) :
       handleLoginResume(i)
         => /\ collections' = collections
            /\ call'.success => currentUser' = <<pendingLogin[i].user>>
            /\ ~call'.success => currentUser' = currentUser

LoginReturnsUser ==
  (call'.op = "login" /\ call'.success) => call'.user = currentUser'

NoDuplicatePurchase ==
  \A i \in 1..Len(users) :
    \A a, b \in 1..Len(users[i].purchasedProducts) :
      users[i].purchasedProducts[a] = users[i].purchasedProducts[b] => a = b

RepeatPurchaseUnchanged ==
  \A id \in IdsOf(products) \cup {UnknownId} :
    (/\ currentUser # <<>>
     /\ \E i \in 1..Len(users) :
          /\ users[i].id = currentUser[1].id
          /\ Includes(users[i].purchasedProducts, id)
     /\ purchaseProduct(id))
      => users' = users

\* C9: a purchaseProduct call for a product already in the authenticated
\* user's purchasedProducts leaves the users collection unchanged, and in
\* every reachable state no product id occurs twice in a user's
\* purchasedProducts.
C9_PurchaseIdempotent == []NoDuplicatePurchase /\ [][RepeatPurchaseUnchanged]_vars

\* C9 witness: after a purchaseProduct call the authenticated user holds
\* both a product of the store and an id the store does not have.
C9_Witness ==
  /\ call.op = "purchaseProduct"
  /\ currentUser # <<>>
  /\ \E i \in 1..Len(users) :
       /\ users[i].id = currentUser[1].id
       /\ Len(users[i].purchasedProducts) = 2
       /\ \E j \in 1..Len(products) : Includes(users[i].purchasedProducts, products[j].id)

IsPrefix(s, t) == Len(s) <= Len(t) /\ SubSeq(t, 1, Len(s)) = s

\* C10: metric history is append-only: in every step, every user's metrics
\* list before the step is a prefix of that user's metrics list after it.
C10_MetricsAppendOnly ==
  [][\A i \in 1..Len(users) :
       \E j \in 1..Len(users') :
         /\ users'[j].id = users[i].id
         /\ IsPrefix(users[i].metrics, users'[j].metrics)]_vars

AddMetricIsLatest ==
  \A e \in MetricEntries :
    (currentUser # <<>> /\ addMetric(currentUser[1].id, e))
      => /\ \A i \in 1..Len(users) :
              users[i].id = currentUser[1].id
                => users'[i].metrics = Append(users[i].metrics, e)
         /\ currentUser' # <<>>
         /\ lastMetric(currentUser'[1]) = <<e>>

\* C11: every addMetric call for the logged-in user puts the entry at the
\* end of that user's metrics list, after the entries added before it, and
\* the latest metric the dashboard reads for the current user is the entry
\* just added.
C11_LatestMetricIsLastAdded == [][AddMetricIsLatest]_vars

SeededKeys == {USERS_KEY, PROGRAMS_KEY, EXERCISES_KEY}

Unreadable(item) == item \in {NoItem, NotJson}

IsSeedUsers(us) ==
  /\ Len(us) = 2
  /\ us[1].username = "admin" /\ us[1].role = "trainer"
  /\ us[2].username = "demo" /\ us[2].role = "client"

IsSeedPrograms(ps) == Len(ps) = 1 /\ Len(ps[1].exercises) = 2

IsSeedExercises(es) == Len(es) = 6

IsDefault(key, coll) ==
  CASE key = USERS_KEY -> IsSeedUsers(coll)
    [] key = PROGRAMS_KEY -> IsSeedPrograms(coll)
    [] key = EXERCISES_KEY -> IsSeedExercises(coll)
    [] OTHER -> coll = <<>>

LoadDefaults ==
  Mount => /\ ~call'.threw
           /\ \A key \in Keys :
                /\ Unreadable(storage[key]) => IsDefault(key, StateOf(key)')
                /\ \A c \in WellFormed(key) \ {<<>>} :
                     storage[key] = JSONstringify(c) => StateOf(key)' = c

\* C13: the load of the mount effect does not raise; for every key that is
\* missing or holds a string that is not JSON it yields the default of that
\* key (the seed records for users, programs and the exercise library, the
\* empty sequence for the others), and for every key that holds a saved
\* non-empty collection it yields that collection, whatever the other keys
\* hold.
C13_LoadDefaults == [][LoadDefaults]_vars

\* C13 witness: a mount over a store whose users key was unreadable and
\* whose sessions key held a saved collection, or the reverse, has yielded
\* the seed users and the saved sessions, or the saved users and no sessions.
C13_Witness ==
  /\ call.op = "mount"
  /\ ~loading
  /\ IsSeedUsers(users)
  /\ sessions = SavedSessions(Num(1))
  /\ programs = SavedPrograms
  /\ groups = <<>>

SeedsOnlyWhenEmpty ==
  Mount =>
    LET d == loadData(storage, nextId)
    IN  /\ \A key \in SeededKeys :
             LET stored == IF key = USERS_KEY THEN StoredUsers(storage)
                           ELSE StoredOr(storage, key)
             IN  IF stored # <<>>
                 THEN StateOf(key)' = stored /\ d.storage[key] = storage[key]
                 ELSE /\ IsDefault(key, StateOf(key)')
                      /\ d.storage[key] = JSONstringify(StateOf(key)')
        /\ \A key \in Keys \ SeededKeys :
             /\ StateOf(key)' = StoredOr(storage, key)
             /\ d.storage[key] = storage[key]
             /\ ~Truthy(storage[key]) \/ Unreadable(storage[key])
                  \/ storage[key] = JSONstringify(<<>>)
                  => StateOf(key)' = <<>>

\* C14: the load of the mount effect yields a stored non-empty users,
\* programs or exercise-library collection as it is and writes nothing for
\* its key; when the stored collection is empty it yields the seed (one
\* trainer and one client account; one program with two embedded exercises;
\* six library exercises) and writes it under the key; the sessions, groups,
\* products and workout-log collections are yielded as stored, empty when
\* nothing is stored, and nothing is written for their keys.
C14_SeedsOnlyWhenEmpty == [][SeedsOnlyWhenEmpty]_vars

\* C14 witness: a mount has seeded the programs and the exercise library,
\* kept the stored users, and left sessions, groups, products and workouts
\* empty.
C14_Witness ==
  /\ call.op = "mount"
  /\ ~loading
  /\ users = SavedUsers
  /\ IsSeedPrograms(programs)
  /\ IsSeedExercises(exercises)
  /\ sessions = <<>> /\ groups = <<>> /\ products = <<>> /\ workouts = <<>>

PersistedAll ==
  ~loading => \A key \in Keys : storage[key] = JSONstringify(StateOf(key))

OnlyChangedKeysWritten ==
  \A key \in Keys :
    (~loading /\ ~loading' /\ StateOf(key)' = StateOf(key))
      => storage'[key] = storage[key]

\* C15: once the load of the mount effect has completed, after every handler
\* call and the persist effects that follow it the item stored under each
\* collection key is the JSON text of the collection in memory, and a call
\* leaves the items of the collections it does not change as they were.
C15_WriteThrough == []PersistedAll /\ [][OnlyChangedKeysWritten]_vars

\* C15 witness: after a booking the stored sessions hold the participant and
\* the stored users hold the joined session.
C15_Witness ==
  /\ call.op = "bookSession"
  /\ \E i \in 1..Len(sessions) : sessions[i].participants # <<>>
  /\ \E i \in 1..Len(users) : users[i].joinedSessions # <<>>
  /\ storage[SESSIONS_KEY] = JSONstringify(sessions)
  /\ storage[USERS_KEY] = JSONstringify(users)

Untouched == collections' = collections /\ ~call'.threw

UnknownIdNoOp ==
  /\ updateProgram(UnknownId, NewProgram(UnknownId, "edited", "")) => Untouched
  /\ \A programId \in IdsOf(programs) :
       assignProgramToUser(UnknownUsername, programId) => Untouched
  /\ \A e \in MetricEntries : addMetric(UnknownId, e) => Untouched
  /\ bookSession(UnknownId) => Untouched
  /\ joinGroup(UnknownId) => Untouched

\* C16: updateProgram with a program id no program has, assignProgram with a
\* username no user has, addMetric with a user id no user has, and
\* bookSession and joinGroup with an id no session or group has leave every
\* collection, the users collection included, as it was and do not throw.
C16_UnknownIdNoOp == [][UnknownIdNoOp]_vars

UnresolvedIsNoOp ==
  \A programId \in IdsOf(programs) \cup {UnknownId},
     exerciseId \in IdsOf(exercises) \cup {UnknownId} :
    (/\ programId \notin IdsOf(programs) \/ exerciseId \notin IdsOf(exercises)
     /\ addExerciseToProgram(programId, exerciseId))
      => programs' = programs /\ ~call'.threw

\* C17: addExerciseToProgram with a program id no program has, or an
\* exercise id no library exercise has, leaves the programs collection as it
\* was and does not throw.
C17_UnresolvedIsNoOp == [][UnresolvedIsNoOp]_vars

\* fromAbandoned tells which parts of the page's state were recorded during
\* a workout that was abandoned and not written since
AbandonedNotPersisted ==
  /\ AbandonWorkout => workouts' = workouts /\ storage' = storage
  /\ (FinishWorkout /\ ~call'.threw) =>
       LET entry == workouts'[Len(workouts')]
       IN  /\ fromAbandoned.notes => entry.notes = ""
           /\ fromAbandoned.results =>
                \A i \in 1..Len(entry.exercises) :
                  entry.exercises[i].completedSets = <<>>
  /\ storage'[WORKOUTS_KEY] # storage[WORKOUTS_KEY] => FinishWorkout

\* C18: abandoning a workout persists nothing; no later finished workout's
\* entry holds notes or set results recorded during the abandoned one; the
\* persisted workout log changes only through finishWorkout.
C18_AbandonedNotPersisted == [][AbandonedNotPersisted]_vars

RecordsNamed(us, username) ==
  Cardinality({i \in 1..Len(us) : us[i].username = username})

\* a pending register call resumes after an overlapping call for the same
\* username has passed the same check and written its user
SecondOverlappingRegisterDuplicates ==
  \A i \in 1..Len(pendingRegister) :
    LET k == pendingRegister[i]
    IN  (/\ handleRegisterResume(i)
         /\ ~UsernameTaken(k.users, k.username)
         /\ UsernameTaken(users, k.username))
          => /\ call'.success
             /\ RecordsNamed(users', k.username) = 2

\* C19: when two register calls for the same new username overlap, both
\* pass the not-exists check and both return success, and after the second
\* one the users collection holds two records with that username.
C19_SecondOverlappingRegisterDuplicates ==
  [][SecondOverlappingRegisterDuplicates]_vars

\* every id of the collection is still an id of the collection after the step
IdsKept(coll, after) == IdsOf(coll) \subseteq IdsOf(after)

\* a step of a handler: the page is neither being reloaded nor mounted
HandlerStep == ~loading /\ ~loading'

NothingDeleted ==
  HandlerStep =>
    /\ IdsKept(users, users')
    /\ IdsKept(sessions, sessions')
    /\ IdsKept(groups, groups')
    /\ IdsKept(products, products')

\* C20: no handler call removes a user, session, group or product: every id
\* in one of these collections before the call is in it after the call.
C20_NothingDeleted == [][NothingDeleted]_vars

CompleteWorkoutNeedsUser ==
  \A programId \in IdsOf(programs) \cup {UnknownId} :
    (currentUser = <<>> /\ completeWorkout(programId, <<>>, "felt good"))
      => /\ call'.threw
         /\ workouts' = workouts
         /\ users' = users

\* C21: completeWorkout called while nobody is logged in fails (it throws),
\* appends no workout-log entry and leaves the users collection as it was.
C21_CompleteWorkoutNeedsUser == [][CompleteWorkoutNeedsUser]_vars

C21_Witness ==
  /\ call.op = "completeWorkout" /\ call.threw
  /\ currentUser = <<>>
  /\ workouts # <<>>

\* every user's completedWorkouts holds exactly the ids of the log entries
\* stamped with that user
LogLinked(us, log) ==
  \A i \in 1..Len(us) :
    /\ \A j \in 1..Len(log) :
         Includes(us[i].completedWorkouts, log[j].id) <=> log[j].userId = us[i].id
    /\ \A k \in 1..Len(us[i].completedWorkouts) :
         us[i].completedWorkouts[k] \in IdsOf(log)

AppendsOneStampedEntry ==
  \A programId \in IdsOf(programs) :
    (currentUser # <<>> /\ completeWorkout(programId, <<>>, "felt good"))
      => /\ Len(workouts') = Len(workouts) + 1
         /\ SubSeq(workouts', 1, Len(workouts)) = workouts
         /\ workouts'[Len(workouts')].userId = currentUser[1].id

\* C22: each completeWorkout call of a logged-in user appends exactly one
\* log entry stamped with that user, and after any sequence of such calls a
\* log entry's id is in a user's completedWorkouts exactly when the entry is
\* in the log and is stamped with that user.
C22_LogLinked == [](LogLinked(users, workouts)) /\ [][AppendsOneStampedEntry]_vars

C22_Witness ==
  /\ call.op = "completeWorkout" /\ ~call.threw
  /\ Len(workouts) = 2
  /\ workouts[1].userId # workouts[2].userId

EnrollmentAgrees ==
  \A i \in 1..Len(users) :
    /\ \A j \in 1..Len(sessions) :
         Includes(users[i].joinedSessions, sessions[j].id)
           <=> Includes(sessions[j].participants, users[i].id)
    /\ \A j \in 1..Len(groups) :
         Includes(users[i].joinedGroups, groups[j].id)
           <=> Includes(groups[j].members, users[i].id)

\* C23: after a bookSession or joinGroup call has completed, a session's id
\* is in a user's joinedSessions exactly when the user's id is in the
\* session's participants, and likewise for groups, joinedGroups and members.
C23_EnrollmentAgrees ==
  [](call.op \in {"bookSession", "joinGroup"} => EnrollmentAgrees)

\* the stored program the open editor is editing, before and after a step
StoredEdited(progs) == FindById(progs, editingProgram[1].id)[1]

OtherFieldsKept(before, after, field) ==
  \A f \in DOMAIN before : f # field => after[f] = before[f]

OnlyNamedEdit ==
  editingProgram # <<>> =>
    LET before == StoredEdited(programs)
        after == StoredEdited(programs')
    IN  /\ \A exerciseId \in IdsOf(editingProgram[1].exercises), in \in FieldInputs :
             updateExerciseInProgram(exerciseId, in[1], in[2]) =>
               /\ OtherFieldsKept(before, after, "exercises")
               /\ Len(after.exercises) = Len(before.exercises)
               /\ \A i \in 1..Len(before.exercises) :
                    IF before.exercises[i].id = exerciseId
                    THEN OtherFieldsKept(before.exercises[i], after.exercises[i], in[1])
                    ELSE after.exercises[i] = before.exercises[i]
        /\ \A exerciseId \in IdsOf(editingProgram[1].exercises) :
             removeExerciseFromProgram(exerciseId) =>
               /\ OtherFieldsKept(before, after, "exercises")
               /\ after.exercises = WithoutId(before.exercises, exerciseId)

\* C24: while the program editor is open, updateExerciseInProgram changes
\* only the named field of the exercise with the given id in the stored
\* program, and removeExerciseFromProgram removes only that exercise; all
\* else in the stored program is as it was just before the call.
C24_OnlyNamedEdit == [][OnlyNamedEdit]_vars

NaNCapacityStaysEmpty ==
  /\ \A i \in 1..Len(sessions) :
       sessions[i].capacity = NaN => sessions[i].participants = <<>>
  /\ \A i \in 1..Len(groups) :
       groups[i].capacity = NaN => groups[i].members = <<>>

NaNCapacityFromInput ==
  /\ createSession("Yoga", "2026-01-05", "18:00", <<"x">>, "")
       => sessions'[Len(sessions')].capacity = NaN
  /\ createGroup("Runners", "2026-01-06", "07:00", <<"x">>, "")
       => groups'[Len(groups')].capacity = NaN

\* C25: a session or group created with non-numeric capacity input has a
\* not-a-number capacity, and no participant or member is ever added to it.
C25_NaNCapacityStaysEmpty ==
  [][NaNCapacityFromInput]_vars /\ []NaNCapacityStaysEmpty

\* the authenticated user is a record of the users collection, equal to it
\* in every field
PointerAgrees ==
  currentUser # <<>> => FindById(users, currentUser[1].id) = currentUser

AfterUserHandler ==
  call.op \in {"addMetric", "assignProgram", "bookSession", "joinGroup",
               "purchaseProduct", "completeWorkout", "saveProfile"}

\* C26: after every call of addMetric, assignProgram, bookSession,
\* joinGroup, purchaseProduct, completeWorkout or saveProfile, a logged-in
\* currentUser is in the users collection and equals its record there field
\* for field.
C26_PointerAgrees == [](AfterUserHandler => PointerAgrees)

UsernamesOf(us) == {us[i].username : i \in 1..Len(us)}

\* a register call that completes adds its user to the collection as it is
\* now, and a username once in the collection stays in it
RegistrationKept ==
  /\ \A i \in 1..Len(pendingRegister) :
       handleRegisterResume(i) =>
         /\ call'.success
         /\ Len(users') = Len(users) + 1
         /\ SubSeq(users', 1, Len(users)) = users
         /\ users'[Len(users')].username = pendingRegister[i].username
  /\ HandlerStep => UsernamesOf(users) \subseteq UsernamesOf(users')

\* C27: a register call that returns success leaves a user with its
\* username in the users collection from then on and undoes no completed
\* update of the users collection, whatever calls ran while its hashing
\* step was pending.
C27_RegistrationKept == [][RegistrationKept]_vars

\* a collection with records is stored under the key
StoredNonEmpty(st, key) ==
  /\ Truthy(st[key])
  /\ ~JSONparseThrows(st[key])
  /\ JSONparse(st[key]) # <<>>

NoSaveBeforeLoad ==
  /\ Mount =>
       /\ LET d == loadData(storage, nextId)
          IN  persistEffectsOfMount(d.storage) = d.storage
       /\ \A key \in Keys :
            StoredNonEmpty(storage, key) => storage'[key] = storage[key]
  /\ Reload => storage' = storage

\* C28: the persist effects of the render in which App is mounted save
\* nothing, so start-up never replaces a stored collection that has records
\* with the initial empty array: after the mount it is stored as it was.
C28_NoSaveBeforeLoad == [][NoSaveBeforeLoad]_vars

C28_Witness ==
  /\ call.op = "mount"
  /\ ~loading
  /\ users = SavedUsers
  /\ sessions # <<>>
  /\ StoredNonEmpty(storage, SESSIONS_KEY)

LoadGivesSequences ==
  Mount =>
    /\ ~call'.threw
    /\ \A key \in Keys :
         /\ IsArray(StateOf(key)')
         /\ storage[key] \in NonArrayTexts => IsDefault(key, StateOf(key)')

\* C29: whatever is stored, the load of the mount effect does not raise and
\* hands a sequence to every collection's state; a stored JSON text that is
\* not an array (null, an object, a number) is loaded like absent data.
C29_LoadGivesSequences == [][LoadGivesSequences]_vars

\* a step of a handler only trainers are offered
TrainerHandlerStep ==
  \/ \E c \in CapacityInputs : createSession("Yoga", "2026-01-05", "18:00", c, "")
  \/ \E c \in CapacityInputs : createGroup("Runners", "2026-01-06", "07:00", c, "")
  \/ \E pr \in PriceInputs : createProduct("Protein bar", pr, "")
  \/ addProgram("Strength", "Heavy lifts")
  \/ \E i \in 1..Len(users), pid \in IdsOf(programs) :
       assignProgramToUser(users[i].username, pid)
  \/ addExercise("Plank", "core", "body weight")

\* a step of a handler only clients are offered
ClientHandlerStep ==
  \/ \E id \in IdsOf(sessions) : bookSession(id)
  \/ \E id \in IdsOf(groups) : joinGroup(id)
  \/ \E id \in IdsOf(products) : purchaseProduct(id)

RoleGated ==
  /\ TrainerHandlerStep => RoleIs("trainer")
  /\ ClientHandlerStep => RoleIs("client")
  /\ (currentUser = <<>> /\ (TrainerHandlerStep \/ ClientHandlerStep))
       => collections' = collections

====
